---- MODULE Spec2Model ----
(***************************************************************************)
(* A model of the request gateway of api_server.py: the rate-limit         *)
(* middleware, the API-key dependency, the route handlers and the          *)
(* exception handlers, as a state machine over the requests in flight.     *)
(*                                                                         *)
(* The message texts of the source are Chinese; the model names each text  *)
(* by an ASCII string that translates it.  A message that the source       *)
(* builds with an f-string is a sequence of its parts, so that "the text   *)
(* of the exception is part of the message" is a membership test.          *)
(***************************************************************************)
EXTENDS Integers, Sequences, FiniteSets, TLC

VARIABLES now, request_counter, inflight, win

vars == <<now, request_counter, inflight, win>>

(***************************************************************************)
(* Bounds of the model.                                                    *)
(***************************************************************************)
\* The clock reading (time.time(), in seconds) when the server starts.
StartTime == 0
\* The clock is not advanced beyond this reading.
MaxTime == 121
\* Client A sends no further request inside a window whose count reached this.
MaxCount == 62
\* The same for client B, which stays far below the limit.
MaxBystander == 2
\* The number of requests that may be suspended in call_next at once.
MaxInFlight == 2
\* The largest page number a messages request asks for.
MaxPage == 3
\* The largest number of rows data access returns.
MaxRows == 3
\* Under SpecBurst the clock advances when the client sent at most this many
\* admitted requests at the current reading, or filled its window.
MaxTrickle == 1

\* The steps by which the clock advances between two events.
Deltas == {60, 61}

Clients == {"A", "B"}

(***************************************************************************)
(* Program constants.                                                      *)
(***************************************************************************)
CLEANUP_INTERVAL == 60
RATE_LIMIT == 60
\* The literal 60 of the admission test (line 219) and of the sweep (line 214).
WINDOW == 60
SWEEP_AGE == 60

HTTP_200_OK == 200
HTTP_401_UNAUTHORIZED == 401
HTTP_403_FORBIDDEN == 403
HTTP_404_NOT_FOUND == 404
HTTP_422_UNPROCESSABLE == 422
HTTP_429_TOO_MANY_REQUESTS == 429
HTTP_500_INTERNAL_SERVER_ERROR == 500

API_KEY == "J6Onc9Rp-ayy_Q9JGUrziCw7QYP_P8ruorqtIuA6Kyo"

(***************************************************************************)
(* Python values.  None is the empty tuple and a present Optional value v  *)
(* is <<v>>; the same encoding carries a header that may be missing.       *)
(***************************************************************************)
None == <<>>
Some(v) == <<v>>

Range(f) == {f[i] : i \in DOMAIN f}

(***************************************************************************)
(* The response envelope (ResponseModel, lines 116-121).  timestamp is     *)
(* int(time.time()) at construction.                                       *)
(***************************************************************************)
ResponseModel(code, message, data, t) ==
    [code |-> code, message |-> message, data |-> data, timestamp |-> t]

EnvelopeFields == {"code", "message", "data", "timestamp"}

\* JSONResponse(status_code, content)
JSONResponse(status_code, content) == [status |-> status_code, body |-> content]

(***************************************************************************)
(* rate_limit_middleware, lines 208-231: the part that runs before the     *)
(* await of call_next.  It holds no await, so the event loop runs it as    *)
(* one step.                                                               *)
(***************************************************************************)
\* line 212: current_time % CLEANUP_INTERVAL < 1
CleanupDue(t) == t % CLEANUP_INTERVAL < 1

\* line 214 deleting every entry when the sweep runs
SweepExpired_Always(entry, t) == TRUE

\* line 214: current_time - request_counter[ip]["timestamp"] > 60
SweepExpired(entry, t) == t - entry.timestamp > SWEEP_AGE

\* lines 212-215: the sweep deletes the expired entries of the dict
Sweep(rc, t) ==
    IF CleanupDue(t)
    THEN [ip \in {i \in DOMAIN rc : ~SweepExpired(rc[i], t)} |-> rc[ip]]
    ELSE rc

\* line 219 written with <
WindowActive_Strict(entry, t) == t - entry.timestamp < WINDOW

\* a window that lasts twice as long as line 219 makes it
WindowActive_TwiceAsLong(entry, t) == t - entry.timestamp <= 2 * WINDOW

\* line 219: current_time - request_counter[client_ip]["timestamp"] <= 60
WindowActive(entry, t) == t - entry.timestamp <= WINDOW

\* the limit test of line 221 written with >=
OverLimit_OffByOne(count) == count >= RATE_LIMIT

\* line 221: request_counter[client_ip]["count"] > RATE_LIMIT
OverLimit(count) == count > RATE_LIMIT

\* lines 229, 231 storing the count 0, so that the request that opens a
\* window is not counted
FreshWindow_NotCounted(t) == [timestamp |-> t, count |-> 0]

\* lines 229, 231: {"timestamp": current_time, "count": 1}
FreshWindow(t) == [timestamp |-> t, count |-> 1]

\* one entry shared by all the clients: the assignment writes every key
Store_OneWindowForAll(rc, c, e) == [ip \in DOMAIN rc \cup {c} |-> e]

\* the dict after request_counter[c] = e
Store(rc, c, e) == [ip \in DOMAIN rc \cup {c} |-> IF ip = c THEN e ELSE rc[ip]]

\* lines 218-231 with the limit tested before the increment, so that a
\* refused request is not counted
Admission_RefusedNotCounted(rc, c, t) ==
    LET swept == Sweep(rc, t) IN
    IF c \in DOMAIN swept /\ WindowActive(swept[c], t)
    THEN IF OverLimit(swept[c].count + 1)
         THEN [counter |-> swept, admit |-> FALSE]
         ELSE [counter |-> Store(swept, c, [swept[c] EXCEPT !.count = @ + 1]),
               admit   |-> TRUE]
    ELSE [counter |-> Store(swept, c, FreshWindow(t)), admit |-> TRUE]

\* lines 218-231: the dict after the request of client c at time t, and
\* whether the request is passed on to call_next
Admission(rc, c, t) ==
    LET swept == Sweep(rc, t) IN
    IF c \in DOMAIN swept
    THEN IF WindowActive(swept[c], t)
         THEN LET n == swept[c].count + 1 IN
              [counter |-> Store(swept, c, [swept[c] EXCEPT !.count = n]),
               admit   |-> ~OverLimit(n)]
         ELSE [counter |-> Store(swept, c, FreshWindow(t)), admit |-> TRUE]
    ELSE [counter |-> Store(swept, c, FreshWindow(t)), admit |-> TRUE]

\* lines 218-231 alone: the limiter with the sweep of lines 211-215 removed
AdmissionNoSweep(rc, c, t) ==
    IF c \in DOMAIN rc
    THEN IF WindowActive(rc[c], t)
         THEN LET n == rc[c].count + 1 IN
              [counter |-> Store(rc, c, [rc[c] EXCEPT !.count = n]),
               admit   |-> ~OverLimit(n)]
         ELSE [counter |-> Store(rc, c, FreshWindow(t)), admit |-> TRUE]
    ELSE [counter |-> Store(rc, c, FreshWindow(t)), admit |-> TRUE]

MSG_TOO_MANY == "too many requests, try again later"

\* lines 223-226: the body is {"detail": ...}, built without ResponseModel
RateLimitedResponse ==
    JSONResponse(HTTP_429_TOO_MANY_REQUESTS, [detail |-> MSG_TOO_MANY])

(***************************************************************************)
(* Exceptions and the two exception handlers (lines 238-260).  An          *)
(* exception is a record; a call either returns a value or raises.         *)
(***************************************************************************)
HTTPException(status_code, detail) ==
    [kind |-> "HTTPException", status_code |-> status_code, detail |-> detail]

Raise(exc) == [raised |-> TRUE, exc |-> exc]
Return(v) == [raised |-> FALSE, value |-> v]

\* lines 239-248: the envelope carries the detail of the exception as message
http_exception_handler(exc, t) ==
    JSONResponse(exc.status_code,
                 ResponseModel(exc.status_code, exc.detail, None, t))

MSG_INTERNAL == <<"internal server error">>

\* lines 251-260
general_exception_handler(exc, t) ==
    JSONResponse(HTTP_500_INTERNAL_SERVER_ERROR,
                 ResponseModel(HTTP_500_INTERNAL_SERVER_ERROR, MSG_INTERNAL, None, t))

\* a route function that returns a ResponseModel: FastAPI sends it with 200
Serialize(model) == JSONResponse(HTTP_200_OK, model)

(***************************************************************************)
(* Authentication (lines 186-202).  api_key_header is fastapi's            *)
(* APIKeyHeader with auto_error left on: a request whose X-API-Key header  *)
(* is missing or empty never reaches get_api_key, the security scheme      *)
(* raises HTTPException(detail "Not authenticated") itself.  The status    *)
(* of that exception depends on the installed fastapi (403 in the older    *)
(* releases, 401 in the newer), so the model takes it as an input.         *)
(***************************************************************************)
MSG_INVALID_KEY == <<"invalid API key">>
MSG_NOT_AUTHENTICATED == <<"Not authenticated">>

NotAuthenticatedStatuses == {HTTP_403_FORBIDDEN, HTTP_401_UNAUTHORIZED}

\* line 186: APIKeyHeader(name=API_KEY_NAME), called with the request
api_key_header(header, nas) ==
    IF header = None \/ header[1] = ""
    THEN Raise(HTTPException(nas, MSG_NOT_AUTHENTICATED))
    ELSE Return(header[1])

\* the secret in lower case, and str.lower() on the values the model presents
API_KEY_LOWER == "j6onc9rp-ayy_q9jgurzicw7qyp_p8ruorqtiua6kyo"
Lower(x) == IF x = API_KEY THEN API_KEY_LOWER ELSE x

\* line 196 comparing without regard to case
KeyMismatch_IgnoreCase(presented) == Lower(presented) # Lower(API_KEY)

\* line 196: api_key_header != API_KEY
KeyMismatch(presented) == presented # API_KEY

\* lines 195-202
get_api_key(presented) ==
    IF KeyMismatch(presented)
    THEN Raise(HTTPException(HTTP_401_UNAUTHORIZED, MSG_INVALID_KEY))
    ELSE Return(presented)

Routes == {"health", "contacts", "messages", "account"}

\* line 419 declared without Depends(get_api_key)
RequiresKey_AccountOpen(route) == route \in {"contacts", "messages"}

\* lines 286, 337, 419: the routes declared with Depends(get_api_key);
\* health_check (line 273) declares no dependency
RequiresKey(route) == route \in {"contacts", "messages", "account"}

\* the dependency chain of a route: Security(api_key_header), then get_api_key
Authenticate(route, header, nas) ==
    IF ~RequiresKey(route) THEN Return(None)
    ELSE LET h == api_key_header(header, nas) IN
         IF h.raised THEN h ELSE get_api_key(h.value)

(***************************************************************************)
(* The values of a database row: an int, a str or None, tagged with the    *)
(* Python type, since the pydantic models accept a value by its type.      *)
(***************************************************************************)
I(n) == [t |-> "int", v |-> ToString(n)]
S(x) == [t |-> "str", v |-> x]
PyNone == [t |-> "none", v |-> "None"]

\* str(x): the decimal digits of an int, a str as it is, "None" for None
str(x) == x.v

IsStr(x) == x.t = "str"
IsInt(x) == x.t = "int"
IsOptStr(x) == x.t \in {"str", "none"}
IsOptInt(x) == x.t \in {"int", "none"}

Exception(kind, text) == [kind |-> kind, text |-> text]

TXT_INDEX == "tuple index out of range"
TXT_VALIDATION == "validation error"

\* a log record of api_logger: the level and the parts of the message
Log(level, message) == [level |-> level, message |-> message]

\* what a route function did: the response it produced, the calls it made
\* to the data-access collaborator, and what it wrote to the log
Handled(response, calls, logged) ==
    [response |-> response, calls |-> calls, logged |-> logged]

Call(fn, args) == [fn |-> fn, args |-> args]

(***************************************************************************)
(* health_check, lines 272-282.                                            *)
(***************************************************************************)
MSG_HEALTHY == <<"service is running">>

health_check(t) ==
    Handled(Serialize(ResponseModel(HTTP_200_OK, MSG_HEALTHY, [status |-> "ok"], t)),
            <<>>,
            <<Log("info", <<"health check request">>)>>)

(***************************************************************************)
(* get_contacts, lines 285-327.  fetched is what micro_msg_db.get_contact  *)
(* did: Raise(exception) or Return(rows).                                  *)
(***************************************************************************)
MSG_NO_CONTACTS == <<"no contact data found">>
MSG_CONTACTS_OK == <<"contact list fetched">>
MSG_CONTACTS_FAILED == "fetching the contact list failed: "

\* lines 306-314: ContactModel(wxid=contact[0], ...) of one row
ContactOf(contact) ==
    IF Len(contact) < 11 THEN Raise(Exception("IndexError", TXT_INDEX))
    ELSE IF ~(/\ IsStr(contact[1]) /\ IsStr(contact[5])
              /\ IsOptStr(contact[4]) /\ IsOptStr(contact[2])
              /\ IsOptStr(contact[9]) /\ IsOptInt(contact[3])
              /\ IsOptStr(contact[11]))
    THEN Raise(Exception("ValidationError", TXT_VALIDATION))
    ELSE Return([wxid |-> contact[1], nickname |-> contact[5],
                 remark |-> contact[4], alias |-> contact[2],
                 avatar_url |-> contact[9], contact_type |-> contact[3],
                 label |-> contact[11]])

\* lines 322-327: except Exception as e
ContactsFailure(e, t) ==
    http_exception_handler(
        HTTPException(HTTP_500_INTERNAL_SERVER_ERROR, <<MSG_CONTACTS_FAILED, e.text>>), t)

\* lines 294-300: if not contacts_data
NoContactsResponse(t) ==
    Serialize(ResponseModel(HTTP_404_NOT_FOUND, MSG_NO_CONTACTS, <<>>, t))

get_contacts(fetched, t) ==
    LET call == <<Call("micro_msg_db.get_contact", <<>>)>>
        req  == Log("info", <<"contact list request">>)
    IN
    IF fetched.raised
    THEN Handled(ContactsFailure(fetched.exc, t), call,
                 <<req, Log("error", <<MSG_CONTACTS_FAILED, fetched.exc.text>>)>>)
    ELSE LET rows == fetched.value
             bad  == {i \in DOMAIN rows : ContactOf(rows[i]).raised}
         IN
         IF rows = <<>>
         THEN Handled(NoContactsResponse(t), call, <<req, Log("warning", MSG_NO_CONTACTS)>>)
         ELSE IF bad # {}
         THEN LET first == CHOOSE i \in bad : \A j \in bad : i <= j
                  e == ContactOf(rows[first]).exc
              IN Handled(ContactsFailure(e, t), call,
                         <<req, Log("error", <<MSG_CONTACTS_FAILED, e.text>>)>>)
         ELSE LET contacts == [i \in DOMAIN rows |-> ContactOf(rows[i]).value] IN
              Handled(Serialize(ResponseModel(HTTP_200_OK, MSG_CONTACTS_OK, contacts, t)),
                      call,
                      <<req, Log("info", <<"contact list fetched, rows: ",
                                           ToString(Len(contacts))>>)>>)

(***************************************************************************)
(* get_messages, lines 330-415.  q is the validated query: contact_id,     *)
(* start_time and end_time are Optional, page and page_size are ints.      *)
(* A Python index i is the index i + 1 of the tuple here.                  *)
(***************************************************************************)
MSG_NO_MESSAGES == <<"no chat records found">>
MSG_MESSAGES_OK == <<"chat records fetched">>
MSG_MESSAGES_FAILED == "fetching the chat records failed: "

\* the truth value Python gives an Optional[int] and an Optional[str]
TruthyInt(o) == o # None /\ o[1] # 0
TruthyStr(o) == o # None /\ o[1] # ""

\* lines 346-348
TimeRange(q) ==
    IF TruthyInt(q.start_time) /\ TruthyInt(q.end_time)
    THEN Some(<<q.start_time[1], q.end_time[1]>>)
    ELSE None

\* lines 351-356: the call made to the data-access collaborator
MessagesCall(q) ==
    IF TruthyStr(q.contact_id)
    THEN Call("msg_db.get_messages", <<q.contact_id[1], TimeRange(q)>>)
    ELSE Call("msg_db.get_messages_all", <<TimeRange(q)>>)

\* lines 386-398: MessageModel(...) of one row
MessageOf(msg) ==
    IF Len(msg) < 8 THEN Raise(Exception("IndexError", TXT_INDEX))
    ELSE IF ~(/\ msg[2].t \in {"str", "int"} /\ IsInt(msg[3])
              /\ IsInt(msg[6]) /\ IsInt(msg[5]))
    THEN Raise(Exception("ValidationError", TXT_VALIDATION))
    ELSE Return([msgid |-> str(msg[1]), talker |-> msg[2], type |-> msg[3],
                 content |-> IF msg[8] # PyNone THEN str(msg[8]) ELSE "",
                 create_time |-> msg[6], is_send |-> msg[5]])

\* line 368 without the "- 1"
StartIdx_PageNotDecremented(page, page_size) == page * page_size

\* line 368
StartIdx(page, page_size) == (page - 1) * page_size

\* line 369
EndIdx(page, page_size, total) ==
    LET a == StartIdx(page, page_size) + page_size IN
    IF a < total THEN a ELSE total

\* line 381: messages_data[start_idx:end_idx]
Slice(rows, start_idx, end_idx) ==
    LET hi == IF end_idx < Len(rows) THEN end_idx ELSE Len(rows)
        lo == IF start_idx < Len(rows) THEN start_idx ELSE Len(rows)
    IN [i \in 1..(hi - lo) |-> rows[lo + i]]

\* line 401: msg[0] if len(msg) > 0 else the word for "unknown"
RowId(msg) == IF Len(msg) > 0 THEN str(msg[1]) ELSE "unknown"

\* lines 380-402: the rows of the page that map, in their order, and one
\* warning for each row that does not
MapPage(rows) ==
    LET ok == SelectSeq(rows, LAMBDA r : ~MessageOf(r).raised)
        ko == SelectSeq(rows, LAMBDA r : MessageOf(r).raised)
    IN [messages |-> [i \in DOMAIN ok |-> MessageOf(ok[i]).value],
        warnings |-> [i \in DOMAIN ko |->
                        Log("warning", <<"row skipped: ", MessageOf(ko[i]).exc.text,
                                         RowId(ko[i])>>)]]

\* lines 374-378 answering as the branch for an empty result does
OutOfRangeModel_NotFound(t) == ResponseModel(HTTP_404_NOT_FOUND, MSG_NO_MESSAGES, <<>>, t)

\* lines 374-378: the page starts beyond the last row
OutOfRangeModel(t) == ResponseModel(HTTP_200_OK, MSG_MESSAGES_OK, <<>>, t)

\* lines 410-415: except Exception as e
MessagesFailure(e, t) ==
    http_exception_handler(
        HTTPException(HTTP_500_INTERNAL_SERVER_ERROR, <<MSG_MESSAGES_FAILED, e.text>>), t)

\* lines 358-364 raising the not-found error instead of returning the model
NoMessagesResponse_Raised(t) ==
    http_exception_handler(HTTPException(HTTP_404_NOT_FOUND, MSG_NO_MESSAGES), t)

\* lines 358-364: if not messages_data
NoMessagesResponse(t) ==
    Serialize(ResponseModel(HTTP_404_NOT_FOUND, MSG_NO_MESSAGES, <<>>, t))

get_messages(q, fetched, t) ==
    LET call == <<MessagesCall(q)>>
        req  == Log("info", <<"chat records request">>)
    IN
    IF fetched.raised
    THEN Handled(MessagesFailure(fetched.exc, t), call,
                 <<req, Log("error", <<MSG_MESSAGES_FAILED, fetched.exc.text>>)>>)
    ELSE LET messages_data == fetched.value
             total     == Len(messages_data)
             start_idx == StartIdx(q.page, q.page_size)
             end_idx   == EndIdx(q.page, q.page_size, total)
         IN
         IF messages_data = <<>>
         THEN Handled(NoMessagesResponse(t), call, <<req, Log("warning", MSG_NO_MESSAGES)>>)
         ELSE IF start_idx >= total
         THEN Handled(Serialize(OutOfRangeModel(t)),
                      call,
                      <<req, Log("warning", <<"page out of range, total: ",
                                              ToString(total)>>)>>)
         ELSE LET page == MapPage(Slice(messages_data, start_idx, end_idx)) IN
              Handled(Serialize(ResponseModel(HTTP_200_OK, MSG_MESSAGES_OK,
                                              page.messages, t)),
                      call,
                      <<req>> \o page.warnings \o
                      <<Log("info", <<"chat records fetched, total: ", ToString(total),
                                      ToString(Len(page.messages))>>)>>)

\* line 334 declared without le=100
ValidQuery_NoUpperLimit(q) == q.page >= 1 /\ q.page_size >= 1

\* lines 333-334: Query(..., ge=1) and Query(..., ge=1, le=100)
ValidQuery(q) == q.page >= 1 /\ q.page_size >= 1 /\ q.page_size <= 100

\* a query that fails these limits never reaches get_messages: fastapi
\* answers with its own 422 response, whose body is {"detail": [errors]}
ValidationResponse ==
    JSONResponse(HTTP_422_UNPROCESSABLE, [detail |-> <<"validation error">>])

(***************************************************************************)
(* get_account_info, lines 418-471.  got is what Me() did: Raise(e) or     *)
(* Return(me), me a record of the attributes the object has.               *)
(***************************************************************************)
MSG_ACCOUNT_OK == <<"account information fetched">>
MSG_ACCOUNT_FAILED == "fetching the account information failed: "
MSG_ATTRIBUTE == "attribute error - "
TXT_NO_WXID == "cannot get wxid"
UNKNOWN_USER == S("unknown user")

hasattr(me, name) == name \in DOMAIN me
Falsy(x) == x = PyNone \/ x = S("")

\* lines 460-465: except ValueError
AccountNotFound(e, t) ==
    http_exception_handler(
        HTTPException(HTTP_404_NOT_FOUND, <<MSG_ACCOUNT_FAILED, e.text>>), t)

\* lines 466-471: except Exception
AccountFailure(parts, t) ==
    http_exception_handler(
        HTTPException(HTTP_500_INTERNAL_SERVER_ERROR, <<MSG_ACCOUNT_FAILED>> \o parts), t)

\* lines 454-459, then 466-471: the HTTPException raised for an AttributeError
\* is caught again by "except Exception", and str() of it is "500: <detail>"
AccountAttributeFailure(e, t) ==
    AccountFailure(<<"500: ", MSG_ACCOUNT_FAILED, MSG_ATTRIBUTE, e.text>>, t)

AccountError(e, t) ==
    IF e.kind \in {"ValueError", "ValidationError"} THEN AccountNotFound(e, t)
    ELSE IF e.kind = "AttributeError" THEN AccountAttributeFailure(e, t)
    ELSE AccountFailure(<<e.text>>, t)

get_account_info(got, t) ==
    LET call == <<Call("Me", <<>>)>>
        req  == Log("info", <<"account information request">>)
        fail(e) == Handled(AccountError(e, t), call,
                           <<req, Log("error", <<MSG_ACCOUNT_FAILED, e.text>>)>>)
    IN
    IF got.raised THEN fail(got.exc)
    ELSE LET me == got.value IN
         IF ~hasattr(me, "wxid") \/ Falsy(me.wxid)
         THEN fail(Exception("ValueError", TXT_NO_WXID))
         ELSE LET nick == IF ~hasattr(me, "nickName") \/ Falsy(me.nickName)
                          THEN UNKNOWN_USER ELSE me.nickName
                  mobile == IF hasattr(me, "mobile") THEN me.mobile ELSE PyNone
                  avatar == IF hasattr(me, "smallHeadImgUrl")
                            THEN me.smallHeadImgUrl ELSE PyNone
              IN
              IF ~(IsStr(me.wxid) /\ IsStr(nick) /\ IsOptStr(mobile) /\ IsOptStr(avatar))
              THEN fail(Exception("ValidationError", TXT_VALIDATION))
              ELSE Handled(
                     Serialize(ResponseModel(HTTP_200_OK, MSG_ACCOUNT_OK,
                                             [wxid |-> me.wxid, nickname |-> nick,
                                              mobile |-> mobile, avatar_url |-> avatar], t)),
                     call,
                     <<req, Log("info", <<"account information fetched: ", str(me.wxid)>>)>>)

(***************************************************************************)
(* The requests in flight.  A request is received by the middleware        *)
(* (Receive), which answers 429 itself or suspends in call_next; the       *)
(* router then resolves the route's dependencies and validates the query   *)
(* (Resolve), the route function runs (Handle), and the middleware         *)
(* returns the response (Respond).  The middleware reads neither the path  *)
(* nor the headers, so the model draws them where they are first read.     *)
(***************************************************************************)
Slots == 1..MaxInFlight

\* the defaults of the Query parameters, lines 332-336
DefaultQuery ==
    [contact_id |-> None, page |-> 1, page_size |-> 20,
     start_time |-> None, end_time |-> None]

NoResponse == JSONResponse(0, None)

IdleSlot ==
    [pc |-> "idle", client |-> "-", current_time |-> 0, route |-> "-", header |-> None,
     query |-> DefaultQuery, stages |-> <<>>, calls |-> <<>>,
     fetched |-> Return(<<>>), response |-> NoResponse, logged |-> <<>>]

\* the window of a client as the properties count it: when it was opened, how
\* many of the client's requests fell in it, were passed on, were refused,
\* and whether the window before it ended with a refused request; for a
\* traced client also the history of its admitted requests, as the number
\* admitted at each clock reading
NoWindow ==
    [open |-> FALSE, start |-> 0, seen |-> 0, passed |-> 0, rejected |-> 0,
     after_reject |-> FALSE, traced |-> FALSE, admitted |-> <<>>]

\* the history f with one more request at t
Bump(f, t) ==
    [x \in DOMAIN f \cup {t} |-> IF x = t THEN (IF t \in DOMAIN f THEN f[t] + 1 ELSE 1)
                                          ELSE f[x]]

Observe(w, admit, t) ==
    LET history == IF w.traced /\ admit THEN Bump(w.admitted, t) ELSE w.admitted IN
    IF w.open /\ t - w.start <= WINDOW
    THEN [w EXCEPT !.seen = @ + 1,
                   !.passed = @ + (IF admit THEN 1 ELSE 0),
                   !.rejected = @ + (IF admit THEN 0 ELSE 1),
                   !.admitted = history]
    ELSE [open |-> TRUE, start |-> t, seen |-> 1,
          passed |-> IF admit THEN 1 ELSE 0, rejected |-> IF admit THEN 0 ELSE 1,
          after_reject |-> w.open /\ w.rejected > 0,
          traced |-> w.traced, admitted |-> history]

Init ==
    /\ now = StartTime
    /\ request_counter = <<>>
    /\ inflight = [s \in Slots |-> IdleSlot]
    /\ win = [c \in Clients |-> NoWindow]

\* time passes
Tick(d) ==
    /\ now + d <= MaxTime
    /\ now' = now + d
    /\ UNCHANGED <<request_counter, inflight, win>>

CountCap(c) == IF c = "A" THEN MaxCount ELSE MaxBystander

FirstIdle(s) ==
    /\ inflight[s].pc = "idle"
    /\ \A r \in Slots : inflight[r].pc = "idle" => s <= r

\* client c sends another request: it stops when the count of its window
\* has reached the cap
Sends(c) ==
    IF c \in DOMAIN request_counter
    THEN WindowActive(request_counter[c], now) => request_counter[c].count < CountCap(c)
    ELSE TRUE

\* lines 218-234: the middleware stores the counter a and either returns
\* the 429 or suspends in call_next
Arrival(c, s, a) ==
    /\ request_counter' = a.counter
    /\ win' = [win EXCEPT ![c] = Observe(@, a.admit, now)]
    /\ inflight' = [inflight EXCEPT ![s] =
         IF a.admit
         THEN [IdleSlot EXCEPT !.pc = "call_next", !.client = c,
                               !.current_time = now,
                               !.stages = <<"rate_limit">>]
         ELSE [IdleSlot EXCEPT !.pc = "respond", !.client = c,
                               !.current_time = now,
                               !.stages = <<"rate_limit">>,
                               !.response = RateLimitedResponse,
                               !.logged = <<Log("warning", <<"rate limit exceeded">>)>>]]
    /\ UNCHANGED now

\* a request of client c is suspended in call_next
Suspended(c) ==
    \E r \in Slots : inflight[r].client = c /\ inflight[r].pc \in {"call_next", "handler"}

\* the middleware with an await between the read of the count and the
\* write: the update of a request that overlaps another request of its
\* client is lost
Receive_LostUpdate(c, s) ==
    /\ FirstIdle(s)
    /\ Sends(c)
    /\ Arrival(c, s, IF Suspended(c)
                     THEN [counter |-> request_counter, admit |-> TRUE]
                     ELSE Admission(request_counter, c, now))

\* rate_limit_middleware up to the await of call_next, lines 206-234: no
\* await stands between line 208 and line 234, so the event loop runs the
\* read, the increment and the comparison of one request as one step
Receive(c, s) ==
    /\ FirstIdle(s)
    /\ Sends(c)
    /\ Arrival(c, s, Admission(request_counter, c, now))

\* call_next: routing, Depends(get_api_key), validation of the Query parameters
Resolve(s, route, header, nas, q) ==
    /\ inflight[s].pc = "call_next"
    /\ route # "messages" => q = DefaultQuery
    /\ ~RequiresKey(route) => header = None /\ nas = HTTP_401_UNAUTHORIZED
    /\ LET auth == Authenticate(route, header, nas)
           seen == [inflight[s] EXCEPT
                      !.route = route, !.header = header, !.query = q,
                      !.stages = IF RequiresKey(route) THEN @ \o <<"auth">> ELSE @]
       IN inflight' = [inflight EXCEPT ![s] =
            IF auth.raised
            THEN [seen EXCEPT !.pc = "respond",
                              !.response = http_exception_handler(auth.exc, now),
                              !.logged = <<Log("error", auth.exc.detail)>>]
            ELSE IF ~ValidQuery(q)
            THEN [seen EXCEPT !.pc = "respond", !.response = ValidationResponse]
            ELSE [seen EXCEPT !.pc = "handler"]]
    /\ UNCHANGED <<now, request_counter, win>>

\* the route function of the request, run with what data access gave it
RouteFunction(route, q, fetched, t) ==
    CASE route = "health"   -> health_check(t)
      [] route = "contacts" -> get_contacts(fetched, t)
      [] route = "messages" -> get_messages(q, fetched, t)
      [] route = "account"  -> get_account_info(fetched, t)

Handle(s, fetched) ==
    /\ inflight[s].pc = "handler"
    /\ LET h == RouteFunction(inflight[s].route, inflight[s].query, fetched, now) IN
       inflight' = [inflight EXCEPT ![s] =
            [@ EXCEPT !.pc = "respond",
                      !.stages = @ \o <<"handler">> \o
                                 (IF h.calls # <<>> THEN <<"data_access">> ELSE <<>>),
                      !.calls = h.calls,
                      !.fetched = fetched,
                      !.response = h.response,
                      !.logged = h.logged]]
    /\ UNCHANGED <<now, request_counter, win>>

\* line 235 (and 223): the middleware returns the response to the client
Respond(s) ==
    /\ inflight[s].pc = "respond"
    /\ inflight' = [inflight EXCEPT ![s] = IdleSlot]
    /\ UNCHANGED <<now, request_counter, win>>

(***************************************************************************)
(* The inputs of the gateway: the requests the clients send and what the   *)
(* data-access collaborator answers.                                       *)
(***************************************************************************)
\* the X-API-Key header: missing, empty, the secret, the secret in lower
\* case, another value
Headers == {None, Some(""), Some(API_KEY), Some(API_KEY_LOWER), Some("wrong-api-key")}

TXT_DB == "database is locked"
DbError == Raise(Exception("OperationalError", TXT_DB))

GoodContact ==
    <<S("wxid_a"), S("alice"), I(1), PyNone, S("Alice"), S("A"), PyNone,
      S("http://small"), S("http://big"), PyNone, S("friends")>>

GoodMessage ==
    <<I(1), I(7), I(1), I(0), I(0), I(1700000000), I(0), S("hello"), S("2023-11-14")>>

\* a contact row whose NickName is NULL
NullNickContact ==
    <<S("wxid_b"), S("bob"), I(1), PyNone, PyNone, S("B"), PyNone,
      S("http://small"), S("http://big"), PyNone, PyNone>>

OtherMessage ==
    <<I(2), S("wxid_b"), I(3), I(0), I(1), I(1700000060), I(0), PyNone, S("2023-11-14")>>
\* a row with too few columns, and a row whose Type is NULL
ShortRow == <<I(3), I(7)>>
NullTypeRow ==
    <<I(4), I(7), PyNone, I(0), I(0), I(1700000120), I(0), S("x"), S("2023-11-14")>>

FullMe == [wxid |-> S("wxid_me"), nickName |-> S("me"), mobile |-> S("123"),
           smallHeadImgUrl |-> S("http://me")]

GatewayQueries ==
    {[DefaultQuery EXCEPT !.contact_id = Some("abc"), !.page = p, !.page_size = z] :
        p \in {0, 1, 2}, z \in {20, 101}}

GatewayOutcomes(route) ==
    CASE route = "health"   -> {Return(<<>>)}
      [] route = "contacts" -> {DbError, Return(<<>>), Return(<<GoodContact>>),
                                Return(<<GoodContact, NullNickContact>>)}
      [] route = "messages" -> {DbError, Return(<<>>), Return(<<GoodMessage>>),
                                Return(<<GoodMessage, ShortRow>>)}
      [] route = "account"  -> {DbError, Return(FullMe),
                                Return([nickName |-> S("me")]),
                                Raise(Exception("AttributeError", "no attribute"))}
      [] OTHER -> {}

(***************************************************************************)
(* Spec: the gateway serving the requests of one client, one at a time,    *)
(* on every route, with every header and every answer of data access.      *)
(***************************************************************************)
Sequential == {1}
Busy == {"A"}

Next ==
    \/ \E d \in Deltas : Tick(d)
    \/ \E c \in Busy, s \in Sequential : Receive(c, s)
    \/ \E s \in Sequential, route \in Routes, header \in Headers,
          nas \in NotAuthenticatedStatuses, q \in GatewayQueries \cup {DefaultQuery} :
          Resolve(s, route, header, nas, q)
    \/ \E s \in Sequential : \E fetched \in GatewayOutcomes(inflight[s].route) :
          Handle(s, fetched)
    \/ \E s \in Sequential : Respond(s)

Spec == Init /\ [][Next]_vars

(***************************************************************************)
(* SpecClients: the rate limiter under the requests of two clients, the    *)
(* busy client A and the bystander B, all sent to the health route.        *)
(***************************************************************************)
NextClients ==
    \/ \E d \in Deltas : Tick(d)
    \/ \E c \in Clients, s \in Sequential : Receive(c, s)
    \/ \E s \in Sequential :
          Resolve(s, "health", None, HTTP_401_UNAUTHORIZED, DefaultQuery)
    \/ \E s \in Sequential : Handle(s, Return(<<>>))
    \/ \E s \in Sequential : Respond(s)

SpecClients == Init /\ [][NextClients]_vars

(***************************************************************************)
(* SpecConcurrent: the rate limiter under overlapping requests of the two  *)
(* clients, up to MaxInFlight of them suspended in call_next at once, all  *)
(* sent to the health route.  The clock advances once, beyond the end of   *)
(* the windows opened before, while requests may be suspended.             *)
(***************************************************************************)
TickOnce ==
    /\ now = StartTime
    /\ Tick(WINDOW + 1)

NextConcurrent ==
    \/ TickOnce
    \/ \E c \in Clients, s \in Slots : Receive(c, s)
    \/ \E s \in Slots :
          Resolve(s, "health", None, HTTP_401_UNAUTHORIZED, DefaultQuery)
    \/ \E s \in Slots : Handle(s, Return(<<>>))
    \/ \E s \in Slots : Respond(s)

SpecConcurrent == Init /\ [][NextConcurrent]_vars

(***************************************************************************)
(* SpecBurst: the rate limiter under the bursts of client A, whose          *)
(* admitted requests are traced.  At a clock reading the client sends a    *)
(* trickle of requests, or it goes on until its window is full.            *)
(***************************************************************************)
InitBurst ==
    /\ now = StartTime
    /\ request_counter = <<>>
    /\ inflight = [s \in Slots |-> IdleSlot]
    /\ win = [c \in Clients |-> [NoWindow EXCEPT !.traced = TRUE]]

AdmittedAt(c, t) == IF t \in DOMAIN win[c].admitted THEN win[c].admitted[t] ELSE 0

Paced(c) ==
    \/ AdmittedAt(c, now) <= MaxTrickle
    \/ c \in DOMAIN request_counter /\ request_counter[c].count >= RATE_LIMIT

TickBurst(d) ==
    /\ \A c \in Busy : Paced(c)
    /\ Tick(d)

NextBurst ==
    \/ \E d \in Deltas : TickBurst(d)
    \/ \E c \in Busy, s \in Sequential : Receive(c, s)
    \/ \E s \in Sequential :
          Resolve(s, "health", None, HTTP_401_UNAUTHORIZED, DefaultQuery)
    \/ \E s \in Sequential : Handle(s, Return(<<>>))
    \/ \E s \in Sequential : Respond(s)

SpecBurst == InitBurst /\ [][NextBurst]_vars

(***************************************************************************)
(* SpecMessages: get_messages on the queries and the data-access answers   *)
(* of InitMessages' request, which the middleware has admitted: the        *)
(* state after Receive("A", 1).                                            *)
(***************************************************************************)
RowKinds == {GoodMessage, OtherMessage, ShortRow, NullTypeRow}

SeqsUpTo(kinds, n) == UNION {[1..k -> kinds] : k \in 0..n}

MessageOutcomes == {DbError} \cup {Return(rows) : rows \in SeqsUpTo(RowKinds, MaxRows)}

PageSizes == {0, 1, 2, 3, 100, 101}

MessageQueries ==
    [contact_id : {None, Some(""), Some("abc")},
     page       : 0..MaxPage,
     page_size  : PageSizes,
     start_time : {None, Some(0), Some(5)},
     end_time   : {None, Some(9)}]

InitMessages ==
    /\ now = StartTime
    /\ request_counter = Admission(<<>>, "A", StartTime).counter
    /\ inflight = [s \in Slots |->
                     IF s = 1
                     THEN [IdleSlot EXCEPT !.pc = "call_next", !.client = "A",
                                           !.current_time = StartTime,
                                           !.stages = <<"rate_limit">>]
                     ELSE IdleSlot]
    /\ win = [c \in Clients |->
                 IF c = "A" THEN Observe(NoWindow, TRUE, StartTime) ELSE NoWindow]

NextMessages ==
    \/ \E q \in MessageQueries :
          Resolve(1, "messages", Some(API_KEY), HTTP_401_UNAUTHORIZED, q)
    \/ \E fetched \in MessageOutcomes : Handle(1, fetched)
    \/ Respond(1)

SpecMessages == InitMessages /\ [][NextMessages]_vars

(***************************************************************************)
(* The properties.                                                        *)
(***************************************************************************)
Min(a, b) == IF a < b THEN a ELSE b
Max(a, b) == IF a > b THEN a ELSE b

Occupied(s) == inflight[s].pc # "idle"
Answered(s) == inflight[s].pc = "respond"
Is429(r) == r.status = HTTP_429_TOO_MANY_REQUESTS

\* C1: of the requests of a client that fall in one window, the first 60
\* are passed on to the route and every later one is answered 429: after n
\* requests in the window, min(n, 60) were passed on and n - min(n, 60)
\* refused, so 61 requests give 60 passed on and one 429.
C1_First60Admitted ==
    /\ \A c \in Clients :
          win[c].open =>
             /\ win[c].passed = Min(win[c].seen, 60)
             /\ win[c].rejected = win[c].seen - win[c].passed
    /\ \A s \in Slots :
          Occupied(s) =>
             LET w == win[inflight[s].client] IN
             /\ w.seen <= 60 => inflight[s].pc # "respond" \/ ~Is429(inflight[s].response)
             /\ w.seen > 60 => Answered(s) /\ inflight[s].response = RateLimitedResponse

\* C1 witness: the 61st request of a window has just been answered 429
C1_Witness ==
    \E s \in Slots :
       /\ Answered(s) /\ Is429(inflight[s].response)
       /\ win[inflight[s].client].seen = 61
       /\ win[inflight[s].client].passed = 60
       /\ win[inflight[s].client].rejected = 1

\* the request of client c arrives in this step, and is passed on by it
Arrives(c) == win'[c] # win[c]
PassedOn(c) ==
    \E s \in Slots : /\ inflight[s].pc = "idle"
                     /\ inflight'[s].pc = "call_next"
                     /\ inflight'[s].client = c

\* C2 as stated: a request that arrives 60 or more time units after the
\* start of the client's window starts a fresh window and is admitted.
C2_FreshWindowFromSixty ==
    [][\A c \in Clients :
          (/\ Arrives(c)
           /\ c \in DOMAIN request_counter
           /\ now - request_counter[c].timestamp >= 60)
          => /\ request_counter'[c] = [timestamp |-> now, count |-> 1]
             /\ PassedOn(c)]_vars

\* C2 amended: a request that arrives more than 60 time units after the
\* start of the client's window starts a fresh window (timestamp = now,
\* count = 1) and is admitted, whatever the count of the old window was.
C2_FreshWindowAfterSixty ==
    [][\A c \in Clients :
          (/\ Arrives(c)
           /\ c \in DOMAIN request_counter
           /\ now - request_counter[c].timestamp > 60)
          => /\ request_counter'[c] = [timestamp |-> now, count |-> 1]
             /\ PassedOn(c)]_vars

\* C2 witness: a client that was being refused in its old window has been
\* admitted as the first request of a fresh one
C2_Witness ==
    \E c \in Clients :
       /\ win[c].open /\ win[c].after_reject
       /\ win[c].seen = 1 /\ win[c].passed = 1
       /\ c \in DOMAIN request_counter
       /\ request_counter[c] = [timestamp |-> now, count |-> 1]
       /\ win[c].start = now

\* C3: the count of a client's window is the number of requests the client
\* attempted in it, at every moment: it is raised by one when the request
\* is received, before authentication, validation and data access, also
\* when the request is refused, and nothing that happens later lowers it.
C3_CountIsAttempts ==
    \A c \in Clients :
       (win[c].open /\ now - win[c].start <= 60) =>
          /\ c \in DOMAIN request_counter
          /\ request_counter[c].timestamp = win[c].start
          /\ request_counter[c].count = win[c].seen

\* C3 witness: requests of the window failed with 500 after data access
\* and are counted all the same
C3_Witness ==
    \E s \in Slots :
       /\ Answered(s)
       /\ inflight[s].response.status = HTTP_500_INTERNAL_SERVER_ERROR
       /\ inflight[s].calls # <<>>
       /\ win[inflight[s].client].seen >= 2
       /\ request_counter[inflight[s].client].count = win[inflight[s].client].seen

Protected == {"contacts", "messages", "account"}

\* the stages a request on a route may have passed, in their order
StagesOf(route) ==
    CASE route = "-"      -> {<<"rate_limit">>}
      [] route = "health" -> {<<"rate_limit">>, <<"rate_limit", "handler">>}
      [] OTHER            -> {<<"rate_limit", "auth">>,
                              <<"rate_limit", "auth", "handler", "data_access">>}

\* C4: a request passes the rate limiter, then the authenticator, then the
\* route function, then data access, on every route; a request the rate
\* limiter refuses is answered 429 and reaches none of the later stages.
C4_GateOrder ==
    \A s \in Slots :
       Occupied(s) =>
          LET r == inflight[s] IN
          /\ r.stages \in StagesOf(r.route)
          /\ r.calls # <<>> => r.stages[Len(r.stages)] = "data_access"
          /\ (win[r.client].seen > 60 \/ (Answered(s) /\ Is429(r.response))) =>
                /\ Answered(s) /\ r.response = RateLimitedResponse
                /\ r.stages = <<"rate_limit">>
                /\ r.calls = <<>>

\* C4 witness: a request over the limit was answered 429 after the rate
\* limiter alone
C4_Witness ==
    \E s \in Slots :
       /\ Answered(s) /\ Is429(inflight[s].response)
       /\ inflight[s].stages = <<"rate_limit">>
       /\ win[inflight[s].client].seen > 60

\* the answer of the authentication stage to a request it turns away
Unauthorized(r) ==
    /\ r.pc = "respond"
    /\ r.stages = <<"rate_limit", "auth">>
    /\ r.response.status \in {401, 403}
    /\ r.response.body.code = r.response.status
    /\ r.response.body.data = None

\* C5: on contacts, messages and account, data access happens only in a
\* request whose X-API-Key value is exactly the configured secret; a
\* request with any other value is turned away by the authentication stage
\* and makes no data-access call.
C5_DataAccessNeedsExactKey ==
    \A s \in Slots :
       (Occupied(s) /\ inflight[s].route \in Protected) =>
          LET r == inflight[s] IN
          /\ (r.calls # <<>> \/ r.pc = "handler") => r.header = Some(API_KEY)
          /\ r.header # Some(API_KEY) => Unauthorized(r) /\ r.calls = <<>>

\* C5 witness: the secret in lower case was presented and turned away
C5_Witness ==
    \E s \in Slots :
       /\ inflight[s].route \in Protected
       /\ inflight[s].header = Some(API_KEY_LOWER)
       /\ Unauthorized(inflight[s])
       /\ inflight[s].calls = <<>>

\* C6: on a protected route a request without the X-API-Key header gets
\* the response a request with a wrong value gets: status 401, code 401 and
\* the same message.
C6_MissingLikeWrong ==
    \A s \in Slots :
       (Answered(s) /\ inflight[s].route \in Protected /\ inflight[s].header = None) =>
          LET r == inflight[s].response
              wrong == http_exception_handler(get_api_key("wrong-api-key").exc,
                                              r.body.timestamp)
          IN /\ r.status = 401
             /\ r = wrong

\* C7: every response has the envelope shape: the fields code, message,
\* data and timestamp.
C7_EveryResponseIsEnvelope ==
    \A s \in Slots :
       Answered(s) => DOMAIN inflight[s].response.body = EnvelopeFields

\* C8: when data access fails inside get_contacts, get_messages or
\* get_account_info, the response has status 500 and a fixed message that
\* holds no text of the exception; the text is in the log only.
C8_NoExceptionTextInResponse ==
    \A s \in Slots :
       (Answered(s) /\ inflight[s].route \in Protected /\ inflight[s].fetched.raised) =>
          LET r == inflight[s].response
              text == inflight[s].fetched.exc.text
          IN /\ r.status = 500
             /\ r.body.message = MSG_INTERNAL
             /\ text \notin Range(r.body.message)
             /\ \E i \in DOMAIN inflight[s].logged :
                   text \in Range(inflight[s].logged[i].message)

\* a messages request that get_messages answered from the rows data access
\* returned
Fetched(s) ==
    /\ Answered(s)
    /\ inflight[s].route = "messages"
    /\ inflight[s].calls # <<>>
    /\ ~inflight[s].fetched.raised

AllMap(rows) == \A i \in DOMAIN rows : ~MessageOf(rows[i]).raised

\* C9: for a valid page and page_size and a non-empty result of total rows
\* that all map, the data list has min(page_size, max(0, total -
\* (page-1)*page_size)) elements, which are the rows from index
\* (page-1)*page_size on in the order they were fetched, and the response
\* is a success (no index error).
C9_PageIsTheSlice ==
    \A s \in Slots :
       (Fetched(s) /\ inflight[s].fetched.value # <<>>
                   /\ AllMap(inflight[s].fetched.value)) =>
          LET q     == inflight[s].query
              rows  == inflight[s].fetched.value
              first == (q.page - 1) * q.page_size
              data  == inflight[s].response.body.data
          IN /\ inflight[s].response.status = 200
             /\ inflight[s].response.body.code = 200
             /\ Len(data) = Min(q.page_size, Max(0, Len(rows) - first))
             /\ \A i \in 1..Len(data) : data[i] = MessageOf(rows[first + i]).value

\* C9 witness: the second page of size 2 of three rows holds the third row
C9_Witness ==
    \E s \in Slots :
       /\ Fetched(s)
       /\ inflight[s].query.page = 2 /\ inflight[s].query.page_size = 2
       /\ Len(inflight[s].fetched.value) = 3
       /\ AllMap(inflight[s].fetched.value)
       /\ inflight[s].response.body.data =
             <<MessageOf(inflight[s].fetched.value[3]).value>>

\* C10 as stated: for a page beyond the last page, (page-1)*page_size >=
\* total, the response is a success (status 200, code 200) with an empty
\* data list.
C10_BeyondLastPageIsSuccess ==
    \A s \in Slots :
       (Fetched(s) /\ (inflight[s].query.page - 1) * inflight[s].query.page_size
                         >= Len(inflight[s].fetched.value)) =>
          /\ inflight[s].response.status = 200
          /\ inflight[s].response.body.code = 200
          /\ inflight[s].response.body.data = <<>>

\* C10 amended: for a non-empty result and a page beyond its last page,
\* the response is a success (status 200, code 200) with an empty data
\* list, and the total that get_messages reports in its log is the number
\* of rows fetched.
C10_BeyondLastPageOfRows ==
    \A s \in Slots :
       (Fetched(s) /\ inflight[s].fetched.value # <<>>
                   /\ (inflight[s].query.page - 1) * inflight[s].query.page_size
                         >= Len(inflight[s].fetched.value)) =>
          /\ inflight[s].response.status = 200
          /\ inflight[s].response.body.code = 200
          /\ inflight[s].response.body.data = <<>>
          /\ \E i \in DOMAIN inflight[s].logged :
                inflight[s].logged[i].message =
                   <<"page out of range, total: ",
                     ToString(Len(inflight[s].fetched.value))>>

\* C10 witness: page 3 of size 2 of three rows is empty
C10_Witness ==
    \E s \in Slots :
       /\ Fetched(s)
       /\ inflight[s].query.page = 3 /\ inflight[s].query.page_size = 2
       /\ Len(inflight[s].fetched.value) = 3
       /\ inflight[s].response.body.code = 200
       /\ inflight[s].response.body.data = <<>>

\* C11: a messages request with page < 1 or page_size outside 1..100 is
\* answered with the validation error (status 422), the route function does
\* not run for it and neither msg_db.get_messages nor
\* msg_db.get_messages_all is called.
C11_InvalidQueryRejected ==
    \A s \in Slots :
       (/\ inflight[s].route = "messages"
        /\ \/ inflight[s].query.page < 1
           \/ inflight[s].query.page_size < 1
           \/ inflight[s].query.page_size > 100) =>
          /\ Answered(s)
          /\ inflight[s].response = ValidationResponse
          /\ inflight[s].response.status = 422
          /\ "handler" \notin Range(inflight[s].stages)
          /\ inflight[s].calls = <<>>

\* C11 witness: page_size = 101 with a valid page was answered 422 without
\* a call to data access
C11_Witness ==
    \E s \in Slots :
       /\ Answered(s) /\ inflight[s].route = "messages"
       /\ inflight[s].query.page = 1 /\ inflight[s].query.page_size = 101
       /\ inflight[s].response.status = 422
       /\ inflight[s].calls = <<>>

\* an authenticated listing request that data access answered with rows
Listed(s) ==
    /\ Answered(s)
    /\ inflight[s].route \in {"contacts", "messages"}
    /\ inflight[s].calls # <<>>
    /\ ~inflight[s].fetched.raised

\* C12: when data access returns an empty result for an authenticated
\* contacts or messages request, whatever its contact_id, page and
\* page_size, the response has status 200, an envelope whose code is the
\* success code 200 or the not-found code 404, and data equal to the empty
\* list; it is never a 500.
C12_EmptyResultIsNotAnError ==
    \A s \in Slots :
       (Listed(s) /\ inflight[s].fetched.value = <<>>) =>
          LET r == inflight[s].response IN
          /\ r.status = 200
          /\ DOMAIN r.body = EnvelopeFields
          /\ r.body.code \in {200, 404}
          /\ r.body.data = <<>>

\* C12 witness: the second page of an empty result of msg_db.get_messages
C12_Witness ==
    \E s \in Slots :
       /\ Listed(s) /\ inflight[s].fetched.value = <<>>
       /\ inflight[s].route = "messages"
       /\ inflight[s].query.contact_id = Some("abc")
       /\ inflight[s].query.page = 2
       /\ inflight[s].response.status = 200
       /\ inflight[s].response.body.data = <<>>

\* the number of rows that map to their typed record
Mappable(route, rows) ==
    Cardinality({i \in DOMAIN rows :
                    IF route = "contacts" THEN ~ContactOf(rows[i]).raised
                                          ELSE ~MessageOf(rows[i]).raised})

\* C13: in get_contacts and in get_messages a row that cannot be mapped to
\* its typed record is skipped and logged and the other rows are returned:
\* the response to a first page that holds all the rows has status 200 and
\* as many records as there are rows that map.
C13_MalformedRowSkipped ==
    \A s \in Slots :
       (/\ Listed(s)
        /\ inflight[s].fetched.value # <<>>
        /\ inflight[s].query.page = 1
        /\ inflight[s].query.page_size >= Len(inflight[s].fetched.value)) =>
          LET r == inflight[s].response
              rows == inflight[s].fetched.value
          IN /\ r.status = 200
             /\ Len(r.body.data) = Mappable(inflight[s].route, rows)
             /\ Mappable(inflight[s].route, rows) < Len(rows) =>
                   \E i \in DOMAIN inflight[s].logged :
                      inflight[s].logged[i].level = "warning"

\* C14: the health route requires no credential and every request to it is
\* answered with status 200 and the envelope {code: 200, data: {status:
\* "ok"}}, whatever requests came before it.  (Under SpecClients every
\* request is a request to the health route and carries no X-API-Key.)
C14_HealthAlwaysOk ==
    \A s \in Slots :
       Answered(s) =>
          /\ inflight[s].header = None
          /\ inflight[s].response.status = 200
          /\ DOMAIN inflight[s].response.body = EnvelopeFields
          /\ inflight[s].response.body.code = 200
          /\ inflight[s].response.body.data = [status |-> "ok"]

\* C15: a request that arrives when the age of the client's window is
\* exactly 60 is counted in the old window: the count is raised by one, the
\* window start stays, and the request is passed on only if the new count
\* is at most 60.  The window is replaced only by a request that arrives at
\* an age strictly greater than 60.
C15_BoundaryKeepsWindow ==
    [][\A c \in Clients :
          (Arrives(c) /\ c \in DOMAIN request_counter) =>
             LET old == request_counter[c]
                 age == now - old.timestamp
             IN /\ age = 60 =>
                      /\ request_counter'[c] =
                            [timestamp |-> old.timestamp, count |-> old.count + 1]
                      /\ PassedOn(c) <=> old.count + 1 <= 60
                /\ request_counter'[c].timestamp # old.timestamp
                      => age > 60 /\ request_counter'[c] = [timestamp |-> now, count |-> 1]
                /\ age > 60 => request_counter'[c].timestamp = now]_vars

\* C15 witness: the 61st request of a window arrived at age exactly 60 and
\* was refused within the old window
C15_Witness ==
    \E s \in Slots :
       /\ Answered(s) /\ Is429(inflight[s].response)
       /\ inflight[s].current_time - win[inflight[s].client].start = 60
       /\ win[inflight[s].client].seen = 61
       /\ request_counter[inflight[s].client] =
             [timestamp |-> inflight[s].current_time - 60, count |-> 61]

\* C16: get_messages passes the time filter to data access as the pair
\* (start_time, end_time) exactly when both are present in the request,
\* whatever their integer values (0 included); when either is absent, no
\* time range is passed.
C16_TimeRangeWhenBothPresent ==
    \A s \in Slots :
       (Answered(s) /\ inflight[s].route = "messages" /\ inflight[s].calls # <<>>) =>
          LET q == inflight[s].query
              args == inflight[s].calls[1].args
              time_range == args[Len(args)]
          IN IF q.start_time # None /\ q.end_time # None
             THEN time_range = Some(<<q.start_time[1], q.end_time[1]>>)
             ELSE time_range = None

\* C17: under overlapping requests, of one client and of different
\* clients, no update of the counter is lost: after N requests of a client
\* in one window the stored count is N, and max(0, N - 60) of them were
\* refused and the others passed on.
C17_NoLostUpdate ==
    \A c \in Clients :
       (win[c].open /\ now - win[c].start <= 60) =>
          /\ c \in DOMAIN request_counter
          /\ request_counter[c] = [timestamp |-> win[c].start, count |-> win[c].seen]
          /\ win[c].rejected = Max(0, win[c].seen - 60)
          /\ win[c].passed + win[c].rejected = win[c].seen

\* C17 witness: the 61st request of a client was refused while an earlier
\* request of the same client was still suspended in call_next, and the
\* other client has a window of its own
C17_Witness ==
    \E s \in Slots, r \in Slots, b \in Clients :
       /\ s # r /\ inflight[s].client = inflight[r].client
       /\ inflight[s].pc \in {"call_next", "handler"}
       /\ Answered(r) /\ Is429(inflight[r].response)
       /\ win[inflight[r].client].seen = 61
       /\ win[inflight[r].client].rejected = 1
       /\ request_counter[inflight[r].client].count = 61
       /\ b # inflight[r].client
       /\ win[b].open /\ b \in DOMAIN request_counter

\* the number of requests of client c admitted at the clock readings from
\* a to b
RECURSIVE AdmittedIn(_, _, _)
AdmittedIn(c, a, b) ==
    IF a > b THEN 0 ELSE AdmittedAt(c, a) + AdmittedIn(c, a + 1, b)

\* C18: for every client and every time interval of length 60, at most
\* 2 * 60 = 120 requests of the client are admitted inside the interval.
C18_AtMostTwiceTheLimit ==
    \A c \in Clients :
       \A a \in DOMAIN win[c].admitted :
          AdmittedIn(c, a, a + 60) <= 2 * 60

\* C18 witness: a burst across a window boundary, more requests admitted
\* inside an interval of length 60 than the limit of one window (59 at the
\* end of a window and 60 at the start of the next)
C18_Witness ==
    \E c \in Clients :
       \E a \in DOMAIN win[c].admitted :
          /\ AdmittedIn(c, a, a + 60) = 119
          /\ win[c].start = a + 60
          /\ win[c].passed = 60

\* the dict of the limiter without the sweep, which keeps the last window
\* of every client that ever sent a request
Unswept ==
    [c \in {x \in Clients : win[x].open} |->
        [timestamp |-> win[c].start, count |-> win[c].seen]]

\* C19: the sweep removes only entries whose window has expired (age > 60),
\* never the entry of a still-active window, and with it every request gets
\* the admission decision, and its client the window, that the limiter
\* without the sweep gives: the two dicts differ in expired entries only.
C19_SweepChangesNoDecision ==
    [][/\ \A c \in DOMAIN request_counter :
             c \notin DOMAIN request_counter' => now - request_counter[c].timestamp > 60
       /\ \A c \in Clients :
             Arrives(c) =>
                LET ref == AdmissionNoSweep(Unswept, c, now) IN
                /\ PassedOn(c) <=> ref.admit
                /\ request_counter'[c] = ref.counter[c]
                /\ \A b \in DOMAIN ref.counter :
                      IF now - ref.counter[b].timestamp <= 60
                      THEN b \in DOMAIN request_counter'
                           /\ request_counter'[b] = ref.counter[b]
                      ELSE b \in DOMAIN request_counter'
                           => request_counter'[b] = ref.counter[b]]_vars

\* C19 witness: the sweep has removed the expired entry of one client and
\* kept the entry of a window opened earlier that is still active
C19_Witness ==
    \E c \in Clients, b \in Clients :
       /\ win[c].open /\ c \notin DOMAIN request_counter
       /\ now - win[c].start > 60
       /\ b \in DOMAIN request_counter
       /\ request_counter[b].timestamp < now
       /\ now - request_counter[b].timestamp <= 60
       /\ request_counter[b].count >= 2

\* the dict of a limiter that has seen the requests of client c only
Own(c) == [x \in {c} \cap DOMAIN Unswept |-> Unswept[x]]

\* C20: a request of a client c does not change the window start or the
\* count of a still-active window of another client b, and does not change
\* whether the next request of b, at whatever time it comes, is admitted;
\* the decision on the request of c is the one a limiter gives that has
\* seen the requests of c only.
C20_PerClientState ==
    [][\A c \in Clients :
          Arrives(c) =>
             /\ PassedOn(c) <=> AdmissionNoSweep(Own(c), c, now).admit
             /\ \A b \in Clients \ {c} :
                   /\ win'[b] = win[b]
                   /\ (b \in DOMAIN request_counter
                       /\ now - request_counter[b].timestamp <= 60) =>
                         /\ b \in DOMAIN request_counter'
                         /\ request_counter'[b] = request_counter[b]
                   /\ \A t \in now..MaxTime :
                         Admission(request_counter', b, t).admit
                            = Admission(request_counter, b, t).admit]_vars

\* C20 witness: a request of one client was received while the window of
\* another client, opened at another time, was active, and that window
\* still has the start and the count of its own client's requests
C20_Witness ==
    \E s \in Slots, b \in Clients :
       /\ Occupied(s) /\ b # inflight[s].client
       /\ b \in DOMAIN request_counter
       /\ request_counter[b] = [timestamp |-> win[b].start, count |-> win[b].seen]
       /\ win[b].seen = 2
       /\ inflight[s].current_time > win[b].start
       /\ inflight[s].current_time - win[b].start <= 60
       /\ request_counter[inflight[s].client].timestamp = inflight[s].current_time

====
